---- MODULE Spec2Model ----
(***************************************************************************)
(* A model of PS3/extract.py: the scan of a notebook's cells that tracks   *)
(* the current problem/part/subpart, collects the annotated answers and    *)
(* writes submission_template.txt.                                         *)
(*                                                                         *)
(* Texts are TLA+ strings; a character of a text is a string of length 1.  *)
(* All texts of the model are ASCII, for which source.encode('utf-8') of   *)
(* get_cells returns the same characters.                                  *)
(***************************************************************************)
EXTENDS Integers, Sequences, FiniteSets, TLC

(***************************************************************************)
(* Bounds of the model.                                                    *)
(***************************************************************************)
\* the longest notebook (number of cells) scanned under SpecScan
MaxCells == 4
\* the longest notebook scanned under SpecLong, from the cells CellsLong
MaxCellsLong == 6
\* the longest notebook of a whole run under Spec, from the cells CellsRun
MaxCellsRun == 4
\* the longest notebook scanned under SpecCollide, from the cells CellsCollide
MaxCellsCollide == 5
\* the longest notebook scanned under SpecTwice, from the cells CellsTwice
MaxCellsTwice == 3
\* the longest notebook scanned under SpecHead, from the cells CellsHead
MaxCellsHead == 3
\* the number of invalid replies to one [y/n] prompt that are modelled
MaxInvalid == 1

(***************************************************************************)
(* Program constants.                                                      *)
(***************************************************************************)
SUPPORTED_NBFORMAT_VERSION == 4
SUBMISSION_FNAME == "submission_template.txt"
BUG_MSG == "If you think you've found a bug in this script, please report it!"
\* ANSWER_PREFIX: cell type -> the possible prefixes of an answer, in order
ANSWER_PREFIX ==
  [code |-> << "%%sql\n-- ANSWER\n", "%sql /* ANSWER */", "# ANSWER\n" >>,
   markdown |-> << "ANSWER" >>]

\* Python's None; no text the scan computes contains "<"
None == "<None>"

(***************************************************************************)
(* Python's str operations.                                                *)
(***************************************************************************)
Char(s, i) == SubSeq(s, i, i)

Digits == {"0", "1", "2", "3", "4", "5", "6", "7", "8", "9"}
UpperCase == "ABCDEFGHIJKLMNOPQRSTUVWXYZ"
LowerCase == "abcdefghijklmnopqrstuvwxyz"
Letters == {Char(UpperCase, i) : i \in 1..26} \cup {Char(LowerCase, i) : i \in 1..26}
\* the characters that \w matches in a byte string
WordChars == Letters \cup Digits \cup {"_"}
\* the characters that str.strip() removes
Whitespace == {" ", "\n", "\t", "\r"}

\* source.startswith(prefix)
startswith(s, prefix) ==
  /\ Len(s) >= Len(prefix)
  /\ SubSeq(s, 1, Len(prefix)) = prefix

RECURSIVE lstrip(_)
lstrip(s) ==
  IF s # "" /\ Char(s, 1) \in Whitespace THEN lstrip(SubSeq(s, 2, Len(s))) ELSE s

RECURSIVE rstrip(_)
rstrip(s) ==
  IF s # "" /\ Char(s, Len(s)) \in Whitespace THEN rstrip(SubSeq(s, 1, Len(s) - 1)) ELSE s

\* str.strip()
strip(s) == rstrip(lstrip(s))

\* one character of str.lower()
LowerChar(c) ==
  IF \E i \in 1..26 : Char(UpperCase, i) = c
    THEN Char(LowerCase, CHOOSE i \in 1..26 : Char(UpperCase, i) = c)
    ELSE c

RECURSIVE lower(_)
lower(s) == IF s = "" THEN "" ELSE LowerChar(Char(s, 1)) \o lower(SubSeq(s, 2, Len(s)))

\* str.replace(old, new) for a one-character old
RECURSIVE replace(_, _, _)
replace(s, old, new) ==
  IF s = "" THEN ""
  ELSE (IF Char(s, 1) = old THEN new ELSE Char(s, 1)) \o replace(SubSeq(s, 2, Len(s)), old, new)

\* ''.join(lines)
RECURSIVE join(_)
join(lines) == IF lines = << >> THEN "" ELSE Head(lines) \o join(Tail(lines))

(***************************************************************************)
(* The pieces of regular expressions that the four heading patterns use.   *)
(* Run(s, i, C) is the first position at or after i whose character is not *)
(* in C (Len(s) + 1 when there is none): where a greedy C* stops.          *)
(***************************************************************************)
RECURSIVE Run(_, _, _)
Run(s, i, C) == IF i <= Len(s) /\ Char(s, i) \in C THEN Run(s, i + 1, C) ELSE i

\* the first position at or after i that holds a newline: where .* stops
RECURSIVE LineEnd(_, _)
LineEnd(s, i) == IF i <= Len(s) /\ Char(s, i) # "\n" THEN LineEnd(s, i + 1) ELSE i

\* \n-+ matches at position i
Underline(s, i) == i + 1 <= Len(s) /\ Char(s, i) = "\n" /\ Char(s, i + 1) = "-"

\* re.match(PROBLEM_PREFIX, source).group(1), PROBLEM_PREFIX = r'Problem (\d+)(:.*)?\n-+'
MatchProblem(source) ==
  IF ~ startswith(source, "Problem ") THEN None
  ELSE LET e == Run(source, 9, Digits)
           t == IF e <= Len(source) /\ Char(source, e) = ":" THEN LineEnd(source, e) ELSE e
       IN IF e > 9 /\ Underline(source, t) THEN SubSeq(source, 9, e - 1) ELSE None

\* re.match(TITLE_PREFIX, source).group(1), TITLE_PREFIX = r'(.+?)\n-+'
MatchTitle(source) ==
  LET e == LineEnd(source, 1)
  IN IF e > 1 /\ Underline(source, e) THEN SubSeq(source, 1, e - 1) ELSE None

\* re.sub(r'(\w*).*', r'\1', problem): what precedes the first non-word character
WordPrefix(problem) == SubSeq(problem, 1, Run(problem, 1, WordChars) - 1)

\* re.match(PART_PREFIX, source).group(1), PART_PREFIX = r'### Part \((\w+)\)'
MatchPart(source) ==
  IF ~ startswith(source, "### Part (") THEN None
  ELSE LET e == Run(source, 11, WordChars)
       IN IF e > 11 /\ e <= Len(source) /\ Char(source, e) = ")"
            THEN SubSeq(source, 11, e - 1) ELSE None

\* re.match(SUBPART_PREFIX, source).group(1), SUBPART_PREFIX = r'#### Part \(([\w.]+)\)'
MatchSubpart(source) ==
  IF ~ startswith(source, "#### Part (") THEN None
  ELSE LET e == Run(source, 12, WordChars \cup {"."})
       IN IF e > 12 /\ e <= Len(source) /\ Char(source, e) = ")"
            THEN SubSeq(source, 12, e - 1) ELSE None

(***************************************************************************)
(* get_answer: the source with its prefix removed and stripped when it     *)
(* starts with a prefix of its cell type, None otherwise.                  *)
(***************************************************************************)
get_answer_AnyCellType(cell_type, source) ==
  LET prefixes == IF cell_type \in DOMAIN ANSWER_PREFIX THEN ANSWER_PREFIX[cell_type]
                  ELSE ANSWER_PREFIX.markdown
      hits == {k \in 1..Len(prefixes) : startswith(source, prefixes[k])}
  IN IF hits = {} THEN None
     ELSE LET first == CHOOSE k \in hits : \A j \in hits : k <= j
          IN strip(SubSeq(source, Len(prefixes[first]) + 1, Len(source)))
get_answer(cell_type, source) ==
  IF cell_type \in DOMAIN ANSWER_PREFIX
    THEN LET prefixes == ANSWER_PREFIX[cell_type]
             hits == {k \in 1..Len(prefixes) : startswith(source, prefixes[k])}
         IN IF hits = {} THEN None
            ELSE LET first == CHOOSE k \in hits : \A j \in hits : k <= j
                 IN strip(SubSeq(source, Len(prefixes[first]) + 1, Len(source)))
    ELSE None

\* Python's truth value of an object that is None or a str
Truthy(x) == x # None /\ x # ""

(***************************************************************************)
(* The inputs of the model.  A cell is a record of nb['cells']: its        *)
(* cell_type and its source, a list of lines.                              *)
(***************************************************************************)
Cell(type, lines) == [cell_type |-> type, source |-> lines]

Cells ==
  { Cell("markdown", << "Problem 1\n", "---------" >>),
    Cell("markdown", << "Problem 2: Joins\n", "---" >>),
    Cell("markdown", << "Bonus Round!\n", "---" >>),
    Cell("markdown", << "### Part (a)" >>),
    Cell("markdown", << "### Part (b)\n", "Explain." >>),
    Cell("markdown", << "#### Part (a.i)" >>),
    Cell("markdown", << "#### Part (a.ii)" >>),
    Cell("markdown", << "Some notes" >>),
    Cell("markdown", << "ANSWER: yes" >>),
    Cell("markdown", << "ANSWER  \n" >>),
    Cell("code", << "# ANSWER\n", "x = 1" >>),
    Cell("code", << "# ANSWER\n" >>),
    Cell("code", << "%sql /* ANSWER */ SELECT a]]>0" >>),
    Cell("code", << "print 1" >>),
    Cell("raw", << "ANSWER raw" >>) }

\* the cells of the long scans
CellsLong ==
  { Cell("markdown", << "Problem 1\n", "---------" >>),
    Cell("markdown", << "### Part (a)" >>),
    Cell("code", << "# ANSWER\n", "x = 1" >>),
    Cell("code", << "%%sql\n", "-- ANSWER\n", "SELECT 2" >>) }

\* the cells of the whole runs
CellsRun ==
  { Cell("markdown", << "Problem 1\n", "---------" >>),
    Cell("markdown", << "### Part (a)" >>),
    Cell("markdown", << "#### Part (a.i)" >>),
    Cell("code", << "# ANSWER\n", "x = 1" >>),
    Cell("code", << "%sql /* ANSWER */ SELECT a]]>0" >>) }

\* the cells of the scans with two positions of one label: the problem titled
\* "1a" without parts, and part (a) of problem 1
CellsCollide ==
  { Cell("markdown", << "1a\n", "--" >>),
    Cell("markdown", << "Problem 1\n", "---------" >>),
    Cell("markdown", << "### Part (a)" >>),
    Cell("markdown", << "#### Part (a.i)" >>),
    Cell("code", << "# ANSWER\n", "x = 1" >>) }

\* the cells of the notebooks that one process scans one after the other
CellsTwice ==
  { Cell("markdown", << "Problem 1\n", "---------" >>),
    Cell("markdown", << "### Part (a)" >>),
    Cell("code", << "# ANSWER\n", "x = 1" >>) }

\* cells that more than one heading pattern could claim, and cells that none does
CellsHead ==
  { Cell("markdown", << "Problem x: Intro\n", "---" >>),
    Cell("markdown", << "Problem 1: Intro\n", "---" >>),
    Cell("markdown", << "### Part (a)\n", "---" >>),
    Cell("markdown", << "### Part (a)" >>),
    Cell("markdown", << "#### Part (a.i)" >>),
    Cell("markdown", << "Problem 1" >>),
    Cell("markdown", << "ANSWER x\n", "---" >>),
    Cell("markdown", << "ANSWER\n" >>),
    Cell("code", << "# ANSWER\n", "x = 1" >>),
    Cell("code", << "### Part (b)" >>),
    Cell("raw", << "ANSWER raw" >>) }

\* the versions of the notebook format
Versions == {3, 4}
\* what the operator types at a [y/n] prompt
Replies == {"y", "No", "maybe"}
\* what the operator types at the name and SUNet prompts
Names == {"Ann Lee", "A & B"}
Sunets == {"alee"}
\* the content of a submission file of an earlier run
OldFile == "<?xml version=\"1.0\"?>\n<pset>\n</pset>\n"

(***************************************************************************)
(* The state.                                                              *)
(***************************************************************************)
VARIABLES
  pc,           \* where the run is
  nbformat,     \* nb['nbformat']
  cells,        \* the cells that get_cells has yielded so far
  state,        \* class state
  answers,      \* answers of get_answers: the list of (number, answer)
  name,         \* name of write_answers
  sunet,        \* sunet of write_answers
  response,     \* response of confirm_answers
  invalid,      \* the invalid replies to the current prompt
  overwrite,    \* what confirm returned to write_answers
  stdout,       \* the lines printed
  stderr,       \* what was written to sys.stderr
  exit_status,  \* the exit status of the process, Running before it ends
  file          \* the content of SUBMISSION_FNAME, None when it does not exist

vars == << pc, nbformat, cells, state, answers, name, sunet, response, invalid, overwrite,
           stdout, stderr, exit_status, file >>

Running == -1
\* a local of confirm_answers or write_answers that is not assigned yet
Unassigned == -1

\* class colors, without the escape character
GREY == "[90m"
RED == "[91m"
ENDC == "[0m"

\* class state as the module defines it
InitialState ==
  [current_problem |-> None, current_part |-> None,
   did_update_part |-> FALSE, answer_numbers |-> {}]

\* an exception that leaves a function: SystemExit of exit(), or AssertionError
NoExc == [exc |-> "none", msg |-> "", is_error |-> FALSE]
SystemExit(msg, is_error) == [exc |-> "SystemExit", msg |-> msg, is_error |-> is_error]
AssertionError_Passes == NoExc
AssertionError == [exc |-> "AssertionError", msg |-> "", is_error |-> TRUE]

\* what exit(msg, is_error) writes to sys.stderr, and sys.exit(BUG_MSG) after it
ExitText(msg, is_error) ==
  (IF is_error THEN RED \o "Error - " \o msg \o ". " \o ENDC ELSE msg \o ". ") \o BUG_MSG

\* what an exception that reaches the top level writes to sys.stderr
Traceback(e) ==
  IF e.exc = "SystemExit" THEN ExitText(e.msg, e.is_error) ELSE "Traceback: " \o e.exc

(***************************************************************************)
(* get_current_answer_number: the answer number of the current problem and *)
(* part, or the exit when there is no problem.                             *)
(***************************************************************************)
\* the answer number with the part left out
NumberOf_ProblemOnly(problem, part) == problem

NumberOf(problem, part) == IF Truthy(part) THEN problem \o part ELSE problem

get_current_answer_number(st) ==
  IF st.current_problem = None
    THEN [exc |-> SystemExit("found an answer that seems to appear before any problem", TRUE),
          number |-> None]
    ELSE [exc |-> NoExc, number |-> NumberOf(st.current_problem, st.current_part)]

NoAnswerMsg(number) ==
  "no answer found for " \o number \o ". Please ensure you have an answer, even if it is empty. Run 'python extract.py -h' for instructions on how answers should be formatted to be detected by this script"

HasSubpartsMsg(number) ==
  "answer found for part " \o number \o " even though it has subparts - this should not be the case"

MultipleMsg(number) == "multiple answers (listed above) found for " \o number

\* check_for_answer with the part/subpart flag ignored in subpart mode
check_for_answer_FlagIgnored(st, subpart) ==
  IF st.current_problem = None \/ st.current_part = None THEN NoExc
  ELSE LET number == get_current_answer_number(st).number
       IN IF subpart
            THEN (IF number \in st.answer_numbers
                    THEN SystemExit(HasSubpartsMsg(number), TRUE) ELSE NoExc)
            ELSE (IF number \notin st.answer_numbers
                    THEN SystemExit(NoAnswerMsg(number), TRUE) ELSE NoExc)

\* check_for_answer with the subpart mode never taken
check_for_answer_NoSubpartMode(st, subpart) ==
  IF st.current_problem = None \/ st.current_part = None THEN NoExc
  ELSE LET number == get_current_answer_number(st).number
       IN IF number \notin st.answer_numbers
            THEN SystemExit(NoAnswerMsg(number), TRUE) ELSE NoExc

\* check_for_answer(subpart): the exception it raises, NoExc when it returns
check_for_answer(st, subpart) ==
  IF st.current_problem = None \/ st.current_part = None THEN NoExc
  ELSE LET number == get_current_answer_number(st).number
       IN IF st.did_update_part /\ subpart
            THEN (IF number \in st.answer_numbers
                    THEN SystemExit(HasSubpartsMsg(number), TRUE) ELSE NoExc)
            ELSE (IF number \notin st.answer_numbers
                    THEN SystemExit(NoAnswerMsg(number), TRUE) ELSE NoExc)

(***************************************************************************)
(* update_current_state(source): class state when it returns or raises,    *)
(* and the exception it raises.                                            *)
(***************************************************************************)
\* the problem of a cell that matches PROBLEM_PREFIX or else TITLE_PREFIX
ProblemOf_TitleFirst(source) ==
  IF MatchTitle(source) # None
    THEN WordPrefix(replace(lower(MatchTitle(source)), " ", "_"))
    ELSE MatchProblem(source)
ProblemOf(source) ==
  IF MatchProblem(source) # None THEN MatchProblem(source)
  ELSE IF MatchTitle(source) # None
    THEN WordPrefix(replace(lower(MatchTitle(source)), " ", "_"))
    ELSE None

update_current_state(st, source) ==
  IF ProblemOf(source) # None
    THEN LET e == check_for_answer(st, FALSE)
         IN IF e # NoExc THEN [state |-> st, exc |-> e]
            ELSE [state |-> [st EXCEPT !.current_problem = ProblemOf(source),
                                       !.current_part = None],
                  exc |-> NoExc]
  ELSE IF MatchPart(source) # None
    THEN LET e == check_for_answer(st, FALSE)
             st1 == [st EXCEPT !.did_update_part = TRUE]
         IN IF e # NoExc THEN [state |-> st, exc |-> e]
            ELSE IF st1.current_problem = None THEN [state |-> st1, exc |-> AssertionError]
            ELSE [state |-> [st1 EXCEPT !.current_part = MatchPart(source)], exc |-> NoExc]
  ELSE IF MatchSubpart(source) # None
    THEN LET e == check_for_answer(st, TRUE)
             st1 == [st EXCEPT !.did_update_part = FALSE]
         IN IF e # NoExc THEN [state |-> st, exc |-> e]
            ELSE IF st1.current_problem = None THEN [state |-> st1, exc |-> AssertionError]
            ELSE [state |-> [st1 EXCEPT !.current_part = replace(MatchSubpart(source), ".", "_")],
                  exc |-> NoExc]
  ELSE [state |-> st, exc |-> NoExc]

(***************************************************************************)
(* The output of write_answers.                                            *)
(***************************************************************************)
Indent(n) == IF n = 1 THEN "    " ELSE IF n = 2 THEN "        " ELSE "            "

RECURSIVE AnswersXml(_)
AnswersXml(as) ==
  IF as = << >> THEN ""
  ELSE Indent(1) \o "<answer number=\"" \o Head(as)[1] \o "\">\n"
         \o Indent(2) \o "<![CDATA[\n" \o Head(as)[2] \o "\n" \o Indent(2) \o "]]>\n"
         \o Indent(1) \o "</answer>\n"
         \o AnswersXml(Tail(as))

Output(nm, su, as) ==
  "<?xml version=\"1.0\"?>\n" \o "<pset>\n"
    \o Indent(1) \o "<student>\n"
    \o Indent(2) \o "<name>\n" \o Indent(3) \o nm \o "\n" \o Indent(2) \o "</name>\n"
    \o Indent(2) \o "<sunet>\n" \o Indent(3) \o su \o "\n" \o Indent(2) \o "</sunet>\n"
    \o Indent(1) \o "</student>\n\n"
    \o AnswersXml(as)
    \o "</pset>\n"

\* text occurs in s
Contains(s, text) ==
  \E i \in 1..Len(s) : i + Len(text) - 1 <= Len(s) /\ SubSeq(s, i, i + Len(text) - 1) = text

\* etree.fromstring accepts the output: for the texts of the model, the
\* parser fails on markup characters in the character data of name and sunet
\* or in the number attribute, and on a CDATA section that the answer closes
CharDataOk(s) == ~ Contains(s, "<") /\ ~ Contains(s, "&") /\ ~ Contains(s, "]]>")

ParsesAsXml(nm, su, as) ==
  /\ CharDataOk(nm)
  /\ CharDataOk(su)
  /\ \A k \in 1..Len(as) :
       /\ CharDataOk(as[k][1]) /\ ~ Contains(as[k][1], "\"")
       /\ ~ Contains(as[k][2], "]]>")

\* distutils.util.strtobool(val) raises ValueError
ValueError(val) ==
  lower(val) \notin {"y", "yes", "t", "true", "on", "1", "n", "no", "f", "false", "off", "0"}

\* distutils.util.strtobool(val) when it returns: 1 or 0
strtobool(val) == IF lower(val) \in {"y", "yes", "t", "true", "on", "1"} THEN 1 ELSE 0

(***************************************************************************)
(* The run: extract_file.                                                  *)
(***************************************************************************)
Init ==
  /\ pc = "extract_file"
  /\ nbformat \in Versions
  /\ cells = << >>
  /\ state = InitialState
  /\ answers = << >>
  /\ name = None
  /\ sunet = None
  /\ response = Unassigned
  /\ invalid = 0
  /\ overwrite = Unassigned
  /\ stdout = << >>
  /\ stderr = ""
  /\ exit_status = Running
  /\ file \in {None, OldFile}

\* an exception reaches the top level: its text goes to stderr, the status is 1
Raise(e) ==
  /\ pc' = "exited"
  /\ stderr' = Traceback(e)
  /\ exit_status' = 1

\* extract_file up to the call of get_answers: the check of the version
CheckVersion ==
  /\ pc = "extract_file"
  /\ IF nbformat # SUPPORTED_NBFORMAT_VERSION
       THEN Raise(SystemExit("unexpected notebook format version: "
                               \o ToString(nbformat) \o " (expected "
                               \o ToString(SUPPORTED_NBFORMAT_VERSION) \o ")", TRUE))
       ELSE pc' = "get_answers" /\ UNCHANGED << stderr, exit_status >>
  /\ UNCHANGED << nbformat, cells, state, answers, name, sunet, response, invalid, overwrite,
                  stdout, file >>

\* one turn of the loop of get_answers, for the next cell of the notebook
ProcessCell_NoAdd(cell) ==
  LET cell_type == cell.cell_type
      source == join(cell.source)
      answer == get_answer(cell_type, source)
      n == get_current_answer_number(state)
      u == update_current_state(state, source)
  IN
  /\ pc = "get_answers"
  /\ cells' = Append(cells, cell)
  /\ IF Truthy(answer)
       THEN IF n.exc # NoExc
              THEN Raise(n.exc) /\ UNCHANGED << state, answers, stdout >>
            ELSE IF n.number \in state.answer_numbers
              THEN IF answers = << >>
                     THEN /\ Raise([exc |-> "IndexError", msg |-> "", is_error |-> TRUE])
                          /\ UNCHANGED << state, answers, stdout >>
                     ELSE /\ stdout' = stdout \o << answers[Len(answers)][2],
                                                    "\n" \o GREY \o "and" \o ENDC \o "\n",
                                                    answer, "" >>
                          /\ Raise(SystemExit(MultipleMsg(n.number), TRUE))
                          /\ UNCHANGED << state, answers >>
            ELSE /\ answers' = Append(answers, << n.number, answer >>)
                 /\ state' = state
                 /\ UNCHANGED << pc, stdout, stderr, exit_status >>
     ELSE IF cell_type = "markdown"
       THEN /\ state' = u.state
            /\ IF u.exc # NoExc THEN Raise(u.exc) ELSE UNCHANGED << pc, stderr, exit_status >>
            /\ UNCHANGED << answers, stdout >>
     ELSE UNCHANGED << pc, state, answers, stdout, stderr, exit_status >>
  /\ UNCHANGED << nbformat, name, sunet, response, invalid, overwrite, file >>
ProcessCell(cell) ==
  LET cell_type == cell.cell_type
      source == join(cell.source)
      answer == get_answer(cell_type, source)
      n == get_current_answer_number(state)
      u == update_current_state(state, source)
  IN
  /\ pc = "get_answers"
  /\ cells' = Append(cells, cell)
  /\ IF Truthy(answer)
       THEN IF n.exc # NoExc
              THEN Raise(n.exc) /\ UNCHANGED << state, answers, stdout >>
            ELSE IF n.number \in state.answer_numbers
              THEN IF answers = << >>
                     THEN /\ Raise([exc |-> "IndexError", msg |-> "", is_error |-> TRUE])
                          /\ UNCHANGED << state, answers, stdout >>
                     ELSE /\ stdout' = stdout \o << answers[Len(answers)][2],
                                                    "\n" \o GREY \o "and" \o ENDC \o "\n",
                                                    answer, "" >>
                          /\ Raise(SystemExit(MultipleMsg(n.number), TRUE))
                          /\ UNCHANGED << state, answers >>
            ELSE /\ answers' = Append(answers, << n.number, answer >>)
                 /\ state' = [state EXCEPT !.answer_numbers = @ \cup {n.number}]
                 /\ UNCHANGED << pc, stdout, stderr, exit_status >>
     ELSE IF cell_type = "markdown"
       THEN /\ state' = u.state
            /\ IF u.exc # NoExc THEN Raise(u.exc) ELSE UNCHANGED << pc, stderr, exit_status >>
            /\ UNCHANGED << answers, stdout >>
     ELSE UNCHANGED << pc, state, answers, stdout, stderr, exit_status >>
  /\ UNCHANGED << nbformat, name, sunet, response, invalid, overwrite, file >>

\* the end of get_answers: the check for the final answer, and the return
EndOfCells ==
  /\ pc = "get_answers"
  /\ IF check_for_answer(state, FALSE) # NoExc
       THEN Raise(check_for_answer(state, FALSE))
       ELSE pc' = "confirm_answers" /\ UNCHANGED << stderr, exit_status >>
  /\ UNCHANGED << nbformat, cells, state, answers, name, sunet, response, invalid, overwrite,
                  stdout, file >>

\* what confirm_answers prints for the answers
RECURSIVE AnswerLines(_)
AnswerLines(as) ==
  IF as = << >> THEN << >>
  ELSE << GREY \o Head(as)[1] \o ":" \o ENDC, Head(as)[2], "" >> \o AnswerLines(Tail(as))

\* confirm_answers up to the prompt of confirm
ConfirmAnswers ==
  /\ pc = "confirm_answers"
  /\ stdout' = stdout \o AnswerLines(answers)
                 \o << "----------",
                       "Please verify the that all of your answers were extracted correctly above.",
                       RED \o "NOTE: the TAs will not be responsible for debugging any errors in extraction by this script." \o ENDC >>
  /\ pc' = "confirm_extraction"
  /\ UNCHANGED << nbformat, cells, state, answers, name, sunet, response, invalid, overwrite,
                  stderr, exit_status, file >>

\* confirm('Were the above answers extracted correctly?') reads a reply, and
\* confirm_answers continues when the reply is valid
ConfirmExtraction(reply) ==
  /\ pc = "confirm_extraction"
  /\ IF ValueError(reply)
       THEN /\ invalid < MaxInvalid
            /\ invalid' = invalid + 1
            /\ stdout' = Append(stdout, "Invalid input, please try again")
            /\ UNCHANGED << pc, response, stderr, exit_status >>
       ELSE /\ invalid' = 0
            /\ response' = strtobool(reply)
            /\ IF strtobool(reply) = 0
                 THEN Raise(SystemExit("Aborting", FALSE))
                 ELSE pc' = "write_answers" /\ UNCHANGED << stderr, exit_status >>
            /\ UNCHANGED stdout
  /\ UNCHANGED << nbformat, cells, state, answers, name, sunet, overwrite, file >>

\* the end of write_answers with the file written before the output is parsed
Generate_WriteFirst(nm, su) ==
  /\ file' = Output(nm, su, answers)
  /\ IF ParsesAsXml(nm, su, answers)
       THEN /\ stdout' = Append(stdout, "Extracted answers to " \o SUBMISSION_FNAME
                           \o ". You should verify that the output file is as you expect. Don't forget to submit!")
            /\ pc' = "exited"
            /\ exit_status' = 0
            /\ UNCHANGED stderr
       ELSE /\ Raise(SystemExit("unexpected error generating XML", TRUE))
            /\ UNCHANGED stdout

\* the end of write_answers: the output is generated, parsed and written
Generate(nm, su) ==
  IF ParsesAsXml(nm, su, answers)
    THEN /\ file' = Output(nm, su, answers)
         /\ stdout' = Append(stdout, "Extracted answers to " \o SUBMISSION_FNAME
                         \o ". You should verify that the output file is as you expect. Don't forget to submit!")
         /\ pc' = "exited"
         /\ exit_status' = 0
         /\ UNCHANGED stderr
    ELSE /\ Raise(SystemExit("unexpected error generating XML", TRUE))
         /\ UNCHANGED << file, stdout >>

\* write_answers reads the name and the SUNet ID, and goes on to the prompt of
\* confirm when the file exists, to the end otherwise
WriteAnswers(nm, su) ==
  /\ pc = "write_answers"
  /\ name' = nm
  /\ sunet' = su
  /\ IF file # None
       THEN pc' = "confirm_overwrite" /\ UNCHANGED << file, stdout, stderr, exit_status >>
       ELSE Generate(nm, su)
  /\ UNCHANGED << nbformat, cells, state, answers, response, invalid, overwrite >>

\* confirm('... already exists. Do you want to overwrite it? ') reads a reply;
\* write_answers does not use what confirm returns
ConfirmOverwrite(reply) ==
  /\ pc = "confirm_overwrite"
  /\ IF ValueError(reply)
       THEN /\ invalid < MaxInvalid
            /\ invalid' = invalid + 1
            /\ stdout' = Append(stdout, "Invalid input, please try again")
            /\ UNCHANGED << pc, overwrite, stderr, exit_status, file >>
       ELSE /\ invalid' = 0
            /\ overwrite' = strtobool(reply)
            /\ Generate(name, sunet)
  /\ UNCHANGED << nbformat, cells, state, answers, name, sunet, response >>

\* a whole run of extract_file, on the notebooks of cells of CellsRun
Next ==
  \/ CheckVersion
  \/ \E cell \in CellsRun : Len(cells) < MaxCellsRun /\ ProcessCell(cell)
  \/ EndOfCells
  \/ ConfirmAnswers
  \/ \E reply \in Replies : ConfirmExtraction(reply)
  \/ \E nm \in Names, su \in Sunets : WriteAnswers(nm, su)
  \/ \E reply \in Replies : ConfirmOverwrite(reply)

Spec == Init /\ [][Next]_vars

\* the run up to the return of get_answers, on the notebooks of cells of Cells
NextScan ==
  \/ CheckVersion
  \/ \E cell \in Cells : Len(cells) < MaxCells /\ ProcessCell(cell)
  \/ EndOfCells

SpecScan == Init /\ [][NextScan]_vars

\* the same, on the longer notebooks of cells of CellsLong
NextLong ==
  \/ CheckVersion
  \/ \E cell \in CellsLong : Len(cells) < MaxCellsLong /\ ProcessCell(cell)
  \/ EndOfCells

SpecLong == Init /\ [][NextLong]_vars

\* the same, on the notebooks of cells of CellsCollide
NextCollide ==
  \/ CheckVersion
  \/ \E cell \in CellsCollide : Len(cells) < MaxCellsCollide /\ ProcessCell(cell)
  \/ EndOfCells

SpecCollide == Init /\ [][NextCollide]_vars

\* get_answers is called again in the same process, for another notebook: its
\* answers start empty, and class state is what the scan before left
GetAnswersAgain ==
  /\ pc = "confirm_answers"
  /\ pc' = "get_answers"
  /\ cells' = << >>
  /\ answers' = << >>
  /\ UNCHANGED << nbformat, state, name, sunet, response, invalid, overwrite,
                  stdout, stderr, exit_status, file >>

\* the scan of a notebook of the cells CellsHead
NextHead ==
  \/ CheckVersion
  \/ \E cell \in CellsHead : Len(cells) < MaxCellsHead /\ ProcessCell(cell)
  \/ EndOfCells

SpecHead == Init /\ [][NextHead]_vars

\* the scans of one process that calls get_answers for notebook after notebook
NextTwice ==
  \/ CheckVersion
  \/ \E cell \in CellsTwice : Len(cells) < MaxCellsTwice /\ ProcessCell(cell)
  \/ EndOfCells
  \/ GetAnswersAgain

SpecTwice == Init /\ [][NextTwice]_vars

(***************************************************************************)
(* The vocabulary of the properties.                                       *)
(***************************************************************************)
Last(seq) == seq[Len(seq)]
Front(seq) == SubSeq(seq, 1, Len(seq) - 1)

\* an answer cell: its text begins with a marker of its kind
IsAnswerCell(cell) ==
  /\ cell.cell_type \in DOMAIN ANSWER_PREFIX
  /\ \E k \in 1..Len(ANSWER_PREFIX[cell.cell_type]) :
       startswith(join(cell.source), ANSWER_PREFIX[cell.cell_type][k])

\* the text of an answer cell: what follows the marker, trimmed
AnswerText(cell) == get_answer(cell.cell_type, join(cell.source))

\* the heading that a cell is: the first pattern that a narrative cell matches,
\* when the cell is not an answer cell
HeadingKind(cell) ==
  IF cell.cell_type # "markdown" \/ IsAnswerCell(cell) THEN "none"
  ELSE IF ProblemOf(join(cell.source)) # None THEN "problem"
  ELSE IF MatchPart(join(cell.source)) # None THEN "part"
  ELSE IF MatchSubpart(join(cell.source)) # None THEN "subpart"
  ELSE "none"

\* the last heading among the cells
RECURSIVE LastHeadingKind(_)
LastHeadingKind(cs) ==
  IF cs = << >> THEN "none"
  ELSE IF HeadingKind(Last(cs)) # "none" THEN HeadingKind(Last(cs))
  ELSE LastHeadingKind(Front(cs))

\* the label of the current position
PositionLabel(st) ==
  IF st.current_part = None THEN st.current_problem
  ELSE st.current_problem \o st.current_part

\* the labels of the records of a list of answers
Labels(as) == {as[k][1] : k \in 1..Len(as)}

\* this step processes one more cell of the notebook
CellStep == pc = "get_answers" /\ Len(cells') = Len(cells) + 1
\* this step is the end of the document
EndStep == pc = "get_answers" /\ cells' = cells /\ pc' # "get_answers"

\* the run has stopped with the fatal error msg
Fatal(msg) == pc = "exited" /\ exit_status = 1 /\ stderr = ExitText(msg, TRUE)

(***************************************************************************)
(* C1: no two records of the answer list carry the same label, and an      *)
(* answer cell whose label is already in the answered set appends no       *)
(* record: it aborts the run with the duplicate-answer error that names    *)
(* the label.                                                              *)
(***************************************************************************)
C1_UniqueLabels ==
  \A i, j \in 1..Len(answers) : answers[i][1] = answers[j][1] => i = j

C1_DuplicateAborts ==
  [][ (/\ CellStep
       /\ IsAnswerCell(Last(cells'))
       /\ state.current_problem # None
       /\ PositionLabel(state) \in state.answer_numbers)
      => (/\ answers' = answers
          /\ Fatal(MultipleMsg(PositionLabel(state)))') ]_vars

C1_NoTwoAnswersForALabel == []C1_UniqueLabels /\ C1_DuplicateAborts

(***************************************************************************)
(* C2: when the current position has a problem and a part and its label is *)
(* not answered, the next new-problem heading, the next part heading, the  *)
(* next subpart heading that follows a subpart heading and the end of the  *)
(* document abort the run with the missing-answer error that names the     *)
(* label of that position, and the position is not updated.                *)
(***************************************************************************)
C2_MissingAnswerAborts ==
  [][ (/\ state.current_problem # None
       /\ state.current_part # None
       /\ PositionLabel(state) \notin state.answer_numbers
       /\ \/ EndStep
          \/ CellStep /\ HeadingKind(Last(cells')) \in {"problem", "part"}
          \/ CellStep /\ HeadingKind(Last(cells')) = "subpart"
                      /\ LastHeadingKind(cells) = "subpart")
      => (/\ Fatal(NoAnswerMsg(PositionLabel(state)))'
          /\ state' = state) ]_vars

\* a subpart heading after a subpart without an answer has stopped the run
C2_Witness ==
  /\ cells # << >>
  /\ HeadingKind(Last(cells)) = "subpart"
  /\ LastHeadingKind(Front(cells)) = "subpart"
  /\ state.current_part # None
  /\ Fatal(NoAnswerMsg(PositionLabel(state)))

(***************************************************************************)
(* C3: a subpart heading, when the heading before it was a part heading    *)
(* and the label of the part is answered, aborts the run with the          *)
(* structural error that names the label of the part; the subpart          *)
(* transition is not applied.                                              *)
(***************************************************************************)
C3_AnsweredPartWithSubparts ==
  [][ (/\ CellStep
       /\ HeadingKind(Last(cells')) = "subpart"
       /\ LastHeadingKind(cells) = "part"
       /\ PositionLabel(state) \in state.answer_numbers)
      => (/\ Fatal(HasSubpartsMsg(PositionLabel(state)))'
          /\ state' = state) ]_vars

\* a subpart heading after an answered part has stopped the run
C3_Witness ==
  /\ cells # << >>
  /\ HeadingKind(Last(cells)) = "subpart"
  /\ LastHeadingKind(Front(cells)) = "part"
  /\ PositionLabel(state) \in state.answer_numbers
  /\ Fatal(HasSubpartsMsg(PositionLabel(state)))

(***************************************************************************)
(* C4: when the duplicate-answer error is raised for a label, the two      *)
(* texts printed are the text of the record stored under that label and    *)
(* the text of the current answer cell.                                    *)
(***************************************************************************)
C4_BothConflictingTexts ==
  (state.current_problem # None /\ Fatal(MultipleMsg(PositionLabel(state))))
    => /\ Len(stdout) >= 4
       /\ \E k \in 1..Len(answers) :
            /\ answers[k][1] = PositionLabel(state)
            /\ stdout[Len(stdout) - 3] = answers[k][2]
       /\ stdout[Len(stdout) - 1] = AnswerText(Last(cells))

(***************************************************************************)
(* C5: an answer cell processed while no problem is set aborts the run     *)
(* with the ordering error; no record is appended and the answered set is  *)
(* unchanged.                                                              *)
(***************************************************************************)
C5_AnswerBeforeAnyProblem ==
  [][ (/\ CellStep
       /\ IsAnswerCell(Last(cells'))
       /\ state.current_problem = None)
      => (/\ Fatal("found an answer that seems to appear before any problem")'
          /\ answers' = answers
          /\ state'.answer_numbers = state.answer_numbers) ]_vars

(***************************************************************************)
(* The structure of a document, read from its cells alone: the kind of     *)
(* each cell, the position that the headings before a cell establish, and  *)
(* the leaves (a problem without parts, a part without subparts, a         *)
(* subpart) that the document has.                                         *)
(***************************************************************************)
KindOf(cell) == IF IsAnswerCell(cell) THEN "answer" ELSE HeadingKind(cell)

\* the part id that a part or subpart heading gives
PartIdOf(cell) ==
  IF HeadingKind(cell) = "part" THEN MatchPart(join(cell.source))
  ELSE replace(MatchSubpart(join(cell.source)), ".", "_")

\* Walk(cs): after the cells cs, the current problem and part, the kind of
\* heading that set them (level), the shape of the document so far (mode:
\* P after a problem heading, T after a part heading, S after a subpart
\* heading, TA and SA after the answer of a part and of a subpart, bad when
\* the document is not well-formed), the records expected for its answer
\* cells, and the leaves that the document has moved past
RECURSIVE Walk(_)
Walk(cs) ==
  IF cs = << >>
    THEN [problem |-> None, part |-> None, level |-> "none", mode |-> "start",
          expected |-> << >>, passed |-> {}]
  ELSE
    LET w == Walk(Front(cs))
        c == Last(cs)
        k == KindOf(c)
        here == [label |-> IF w.part = None THEN w.problem ELSE w.problem \o w.part,
                 level |-> w.level]
        \* the position that this heading leaves is a leaf, unless it is a
        \* problem or a part that this heading gives its first part or subpart
        leaf == /\ w.level # "none"
                /\ ~ (w.level = "problem" /\ k \in {"part", "subpart"})
                /\ ~ (w.level = "part" /\ k = "subpart")
        pass == IF leaf THEN w.passed \cup {here} ELSE w.passed
    IN
    IF k = "problem"
      THEN [w EXCEPT !.problem = ProblemOf(join(c.source)), !.part = None,
                     !.level = "problem", !.passed = pass,
                     !.mode = IF w.mode \in {"start", "TA", "SA"} THEN "P" ELSE "bad"]
    ELSE IF k = "part" /\ w.problem # None
      THEN [w EXCEPT !.part = PartIdOf(c), !.level = "part", !.passed = pass,
                     !.mode = IF w.mode \in {"P", "TA", "SA"} THEN "T" ELSE "bad"]
    ELSE IF k = "subpart" /\ w.problem # None
      THEN [w EXCEPT !.part = PartIdOf(c), !.level = "subpart", !.passed = pass,
                     !.mode = IF w.mode \in {"T", "SA"} THEN "S" ELSE "bad"]
    ELSE IF k = "answer"
      THEN [w EXCEPT !.expected = Append(@, << here.label, AnswerText(c) >>),
                     !.mode = IF w.mode = "T" THEN "TA"
                              ELSE IF w.mode = "S" THEN "SA" ELSE "bad"]
    ELSE IF k \in {"part", "subpart"} THEN [w EXCEPT !.mode = "bad"]
    ELSE w

\* problem headings, each with parts and optionally subparts, every leaf
\* followed by exactly one answer cell, no answer anywhere else, and no two
\* leaves with the same label
WellFormed(cs) ==
  /\ Walk(cs).mode \in {"TA", "SA"}
  /\ \A i, j \in 1..Len(Walk(cs).expected) :
       Walk(cs).expected[i][1] = Walk(cs).expected[j][1] => i = j

\* the leaves of the document when it ends after the cells cs
Leaves(cs) ==
  LET w == Walk(cs)
  IN IF w.level = "none" THEN w.passed
     ELSE w.passed \cup {[label |-> IF w.part = None THEN w.problem ELSE w.problem \o w.part,
                          level |-> w.level]}

(***************************************************************************)
(* C6: the scan of a well-formed document completes without error and      *)
(* returns exactly one record per leaf, in the order of the document, each *)
(* with the label of its position.                                         *)
(***************************************************************************)
C6_WellFormedRoundTrip ==
  (nbformat = SUPPORTED_NBFORMAT_VERSION /\ pc # "get_answers" /\ WellFormed(cells))
    => (pc = "confirm_answers" /\ answers = Walk(cells).expected)

(***************************************************************************)
(* C7: every position that has no answer when the scan moves past it or    *)
(* the document ends is fatal: a scan that has not stopped has a record    *)
(* for every leaf it has moved past, and a scan that returns has a record  *)
(* for every leaf of the document, the problems without parts included.    *)
(***************************************************************************)
C7_EveryLeafAnswered ==
  /\ pc = "get_answers" => \A l \in Walk(cells).passed : l.label \in Labels(answers)
  /\ pc = "confirm_answers" => \A l \in Leaves(cells) : l.label \in Labels(answers)

(***************************************************************************)
(* C8: an answer cell whose text after the marker is empty or whitespace   *)
(* is recorded as (current label, empty text), and the label is answered.  *)
(***************************************************************************)
C8_EmptyAnswerCounts ==
  [][ (/\ CellStep
       /\ IsAnswerCell(Last(cells'))
       /\ AnswerText(Last(cells')) = ""
       /\ state.current_problem # None
       /\ PositionLabel(state) \notin state.answer_numbers)
      => (/\ answers' = Append(answers, << PositionLabel(state), "" >>)
          /\ PositionLabel(state) \in state'.answer_numbers) ]_vars

(***************************************************************************)
(* C9: the output file is written only after the version check passed, the *)
(* scan returned without error, the operator confirmed the extraction and  *)
(* the generated document passed validation; a run that hits a fatal error *)
(* never writes the file.                                                  *)
(***************************************************************************)
\* the file is as it was when the run began
NotWritten == file \in {None, OldFile}

\* the run has stopped with a fatal error or an uncaught exception
FatalError ==
  /\ pc = "exited"
  /\ startswith(stderr, RED \o "Error - ") \/ startswith(stderr, "Traceback")

C9_NoWriteOnFatalError == FatalError => NotWritten

C9_WriteAfterAllChecks ==
  [][ file' # file
      => (/\ nbformat = SUPPORTED_NBFORMAT_VERSION
          /\ check_for_answer(state, FALSE) = NoExc
          /\ stderr = ""
          /\ response = 1
          /\ ParsesAsXml(name', sunet', answers)
          /\ file' = Output(name', sunet', answers)
          /\ stderr' = "" /\ exit_status' = 0) ]_vars

C9_WriteOnlyWhenAllPassed == []C9_NoWriteOnFatalError /\ C9_WriteAfterAllChecks

\* a run has written the file, with an answer in it
C9_Witness ==
  /\ pc = "exited"
  /\ exit_status = 0
  /\ answers # << >>
  /\ file = Output(name, sunet, answers)

(***************************************************************************)
(* C10: when the output file exists and the operator answers no to the     *)
(* overwrite confirmation, the run terminates and the file is unchanged;   *)
(* when the operator answers no to the extraction confirmation, nothing is *)
(* written.                                                                *)
(***************************************************************************)
C10_DeclinedMeansNotWritten ==
  /\ overwrite = 0 => (pc = "exited" /\ file = OldFile)
  /\ response = 0 => (pc = "exited" /\ NotWritten)

(***************************************************************************)
(* C11: a run that ends because the operator declined a confirmation ends  *)
(* with the exit status zero, and a run that ends with a fatal error ends  *)
(* with a nonzero exit status.                                             *)
(***************************************************************************)
C11_ExitStatus ==
  /\ (pc = "exited" /\ response = 0) => exit_status = 0
  /\ FatalError => exit_status \notin {0, Running}

(***************************************************************************)
(* C12: every fatal error message (format, ordering, duplicate-answer,     *)
(* structural, missing-answer, serialization) names the offending position *)
(* label.                                                                  *)
(***************************************************************************)
\* the run has stopped with a fatal error of exit()
ErrorExit == pc = "exited" /\ startswith(stderr, RED \o "Error - ")

\* the message of the fatal error is one of the messages that carry the
\* label, with the label of the current position in it
NamesCurrentLabel ==
  /\ state.current_problem # None
  /\ stderr \in {ExitText(MultipleMsg(PositionLabel(state)), TRUE),
                 ExitText(HasSubpartsMsg(PositionLabel(state)), TRUE),
                 ExitText(NoAnswerMsg(PositionLabel(state)), TRUE)}

C12_EveryFatalMessageNamesLabel == ErrorExit => NamesCurrentLabel

(***************************************************************************)
(* C12 as amended: the duplicate-answer, structural and missing-answer     *)
(* messages name the label of the current position; the format, ordering   *)
(* and serialization messages are fixed texts that name no label.          *)
(***************************************************************************)
LabelFreeMessages ==
  {"unexpected notebook format version: " \o ToString(nbformat) \o " (expected "
     \o ToString(SUPPORTED_NBFORMAT_VERSION) \o ")",
   "found an answer that seems to appear before any problem",
   "unexpected error generating XML"}

C12_PositionErrorsNameLabel ==
  ErrorExit =>
    \/ NamesCurrentLabel
    \/ \E msg \in LabelFreeMessages : stderr = ExitText(msg, TRUE)

\* a run has stopped with the structural error that names the label of a part
C12_Witness ==
  /\ state.current_part # None
  /\ Fatal(HasSubpartsMsg(PositionLabel(state)))

(***************************************************************************)
(* C13: after a new-problem transition (numbered or titled heading) that   *)
(* passes the completeness check, the current problem is the new id, the   *)
(* current part is unset and the part/subpart flag is false, whatever the  *)
(* state was before; the answered set is unchanged.                        *)
(***************************************************************************)
C13_NewProblemResetsPosition ==
  [][ (/\ CellStep
       /\ HeadingKind(Last(cells')) = "problem"
       /\ pc' = "get_answers")
      => state' = [current_problem |-> ProblemOf(join(Last(cells').source)),
                   current_part |-> None,
                   did_update_part |-> FALSE,
                   answer_numbers |-> state.answer_numbers] ]_vars

(***************************************************************************)
(* C14: a part heading with no direct answer that is followed, as the next *)
(* heading, by a subpart heading raises no error: the subpart transition   *)
(* sets the current part to the subpart id and the flag to false, so that  *)
(* every later heading or the end of the document requires the label of    *)
(* the then-current subpart to be answered.                                *)
(***************************************************************************)
\* the positions (problem, part) at which the answer cells of the cells were
\* met, in the order of the cells
RECURSIVE AnsweredAt(_)
AnsweredAt(cs) ==
  IF cs = << >> THEN << >>
  ELSE IF IsAnswerCell(Last(cs))
    THEN Append(AnsweredAt(Front(cs)),
                [problem |-> Walk(Front(cs)).problem, part |-> Walk(Front(cs)).part])
    ELSE AnsweredAt(Front(cs))

\* the current position
Position(st) == [problem |-> st.current_problem, part |-> st.current_part]

\* an answer cell was met at the current position: it has a direct answer
HasDirectAnswer == \E k \in 1..Len(AnsweredAt(cells)) : AnsweredAt(cells)[k] = Position(state)

\* the subpart heading of this step is applied
SubpartApplied ==
  /\ pc' = "get_answers"
  /\ state' = [state EXCEPT !.current_part = PartIdOf(Last(cells')),
                            !.did_update_part = FALSE]

\* a heading or the end of the document after an unanswered subpart is fatal
C14_SubpartMustBeAnswered ==
  [][ (/\ LastHeadingKind(cells) = "subpart"
       /\ PositionLabel(state) \notin state.answer_numbers
       /\ EndStep \/ (CellStep /\ HeadingKind(Last(cells')) # "none"))
      => Fatal(NoAnswerMsg(PositionLabel(state)))' ]_vars

C14_UnansweredPartThenSubpart ==
  [][ (/\ CellStep
       /\ HeadingKind(Last(cells')) = "subpart"
       /\ LastHeadingKind(cells) = "part"
       /\ ~ HasDirectAnswer)
      => SubpartApplied ]_vars

C14_PartWithoutDirectAnswer == C14_UnansweredPartThenSubpart /\ C14_SubpartMustBeAnswered

(***************************************************************************)
(* What does hold of every scan: the same for a part heading whose label   *)
(* is not in the answered set (a part without a direct answer whose label  *)
(* another position has answered raises the structural error).             *)
(***************************************************************************)
C14_UnansweredLabelThenSubpart ==
  [][ (/\ CellStep
       /\ HeadingKind(Last(cells')) = "subpart"
       /\ LastHeadingKind(cells) = "part"
       /\ PositionLabel(state) \notin state.answer_numbers)
      => SubpartApplied ]_vars

C14_PartWithUnansweredLabel == C14_UnansweredLabelThenSubpart /\ C14_SubpartMustBeAnswered

\* a subpart heading has been applied after a part without an answer
C14_Witness ==
  /\ pc = "get_answers"
  /\ cells # << >>
  /\ HeadingKind(Last(cells)) = "subpart"
  /\ LastHeadingKind(Front(cells)) = "part"
  /\ state.current_part = PartIdOf(Last(cells))
  /\ ~ state.did_update_part
  /\ state.answer_numbers = {}

(***************************************************************************)
(* C15: each invocation of the scan starts from the initial Scan State (no *)
(* problem, no part, flag false, empty answered set): what the scan of one *)
(* document answered or reached does not affect the scan of the next       *)
(* document in the same process.                                           *)
(***************************************************************************)
C15_FreshStatePerScan ==
  (pc = "get_answers" /\ cells = << >>) => state = InitialState

(***************************************************************************)
(* C16: a part or subpart heading processed while no problem is            *)
(* established ends the scan with an assertion fault, which is not one of  *)
(* the user-facing structural errors, and the part is not set.             *)
(***************************************************************************)
C16_PartBeforeAnyProblem ==
  [][ (/\ CellStep
       /\ state.current_problem = None
       /\ HeadingKind(Last(cells')) \in {"part", "subpart"})
      => /\ pc' = "exited"
         /\ stderr' = Traceback(AssertionError)
         /\ ~ ErrorExit'
         /\ file' = file
         /\ state'.current_part = state.current_part
         /\ state'.current_part = None ]_vars

\* a scan that a part heading before any problem ended
C16_Witness ==
  /\ pc = "exited"
  /\ stderr = Traceback(AssertionError)
  /\ cells # << >>
  /\ HeadingKind(Last(cells)) \in {"part", "subpart"}
  /\ state.current_problem = None
  /\ state.current_part = None

(***************************************************************************)
(* C17: the heading patterns are tried against a narrative cell in the     *)
(* order numbered problem, titled problem, part, subpart, and the first    *)
(* match wins: 'Problem <non-digit id>' over a dash underline is a titled  *)
(* problem (id: the title lower-cased, blanks to underscores, cut at the   *)
(* first non-word character), never the numbered problem of that id, and a *)
(* cell matching a problem pattern never makes a part or subpart           *)
(* transition.                                                             *)
(***************************************************************************)
\* the cell of this step is handed to update_current_state
Tracked == CellStep /\ Last(cells').cell_type = "markdown" /\ ~ IsAnswerCell(Last(cells'))
\* the problem id of the titled rule
TitleId(source) == WordPrefix(replace(lower(MatchTitle(source)), " ", "_"))
\* the id that follows the word Problem
IdAfterProblem(source) == WordPrefix(SubSeq(source, Len("Problem ") + 1, Len(source)))
\* the step is the problem transition to id, and no part or subpart transition
ProblemTransition(id) ==
  state' = [state EXCEPT !.current_problem = id, !.current_part = None]
\* the step is the part or subpart transition to part, with the flag given
PartTransition(part, flag) ==
  state' = [state EXCEPT !.current_part = part, !.did_update_part = flag]

C17_FirstMatchWins ==
  [][ (Tracked /\ pc' = "get_answers")
      => LET source == join(Last(cells').source)
         IN /\ MatchProblem(source) # None => ProblemTransition(MatchProblem(source))
            /\ (MatchProblem(source) = None /\ MatchTitle(source) # None)
                 => ProblemTransition(TitleId(source))
            /\ (startswith(source, "Problem ") /\ MatchProblem(source) = None
                  /\ MatchTitle(source) # None)
                 => state'.current_problem # IdAfterProblem(source)
            /\ (MatchProblem(source) = None /\ MatchTitle(source) = None
                  /\ MatchPart(source) # None)
                 => PartTransition(MatchPart(source), TRUE)
            /\ (MatchProblem(source) = None /\ MatchTitle(source) = None
                  /\ MatchPart(source) = None /\ MatchSubpart(source) # None)
                 => PartTransition(replace(MatchSubpart(source), ".", "_"), FALSE) ]_vars

\* 'Problem x: Intro' over dashes became the titled problem problem_x, and a
\* part heading over dashes became the problem of the empty id
C17_Witness ==
  /\ pc = "get_answers"
  /\ Len(cells) >= 2
  /\ join(cells[1].source) = "Problem x: Intro\n---"
  /\ MatchPart(join(cells[2].source)) # None
  /\ MatchTitle(join(cells[2].source)) # None
  /\ Len(cells) = 2
  /\ state.current_problem = ""
  /\ state.current_part = None

(***************************************************************************)
(* C18: a cell that is neither an answer nor a heading (a cell of a kind   *)
(* other than markdown without an answer marker, a markdown cell matching  *)
(* none of the four patterns) leaves the problem, the part, the flag, the  *)
(* answered set and the answer list unchanged; an answer cell leaves the   *)
(* problem, the part and the flag unchanged, whatever headings its text    *)
(* holds.                                                                  *)
(***************************************************************************)
\* no heading pattern matches the text
NoHeading(source) ==
  /\ MatchProblem(source) = None
  /\ MatchTitle(source) = None
  /\ MatchPart(source) = None
  /\ MatchSubpart(source) = None
\* the cell of this step is neither an answer nor a heading
Inert ==
  /\ CellStep
  /\ ~ IsAnswerCell(Last(cells'))
  /\ Last(cells').cell_type # "markdown" \/ NoHeading(join(Last(cells').source))

C18_InertCells ==
  [][ /\ Inert => /\ state' = state
                  /\ answers' = answers
                  /\ pc' = "get_answers"
      /\ (CellStep /\ IsAnswerCell(Last(cells')))
           => /\ state'.current_problem = state.current_problem
              /\ state'.current_part = state.current_part
              /\ state'.did_update_part = state.did_update_part
              /\ \/ answers' = answers /\ state'.answer_numbers = state.answer_numbers
                 \/ /\ Len(answers') = Len(answers) + 1
                    /\ Front(answers') = answers
                    /\ state'.answer_numbers
                         = state.answer_numbers \cup {Last(answers')[1]} ]_vars

\* an answer cell whose text is a title over dashes was recorded as an answer,
\* and a raw cell with the answer marker came after it
C18_Witness ==
  /\ pc = "get_answers"
  /\ Len(cells) = 3
  /\ MatchTitle(join(cells[2].source)) # None
  /\ IsAnswerCell(cells[2])
  /\ cells[3].cell_type = "raw"
  /\ Len(answers) = 1
  /\ state.current_problem = "1"

(***************************************************************************)
(* C19: position labels are unambiguous.  The duplicate-answer error is    *)
(* raised only when an earlier answer cell was met at the same position    *)
(* (same problem id, same part or subpart id or none), and the             *)
(* completeness check of a position is passed only by an answer cell met   *)
(* at that position.                                                       *)
(***************************************************************************)
\* the positions the scan has been at when it met an answer cell have
\* different labels
C19_DifferentPositionsDifferentLabels ==
  \A j, k \in 1..Len(AnsweredAt(cells)) :
    LET p == AnsweredAt(cells)[j]
        q == AnsweredAt(cells)[k]
    IN (p.problem # None /\ q.problem # None /\ p # q)
         => NumberOf(p.problem, p.part) # NumberOf(q.problem, q.part)

C19_DuplicateOnlyAtSamePosition ==
  [][ (CellStep /\ IsAnswerCell(Last(cells'))
         /\ Fatal(MultipleMsg(PositionLabel(state)))')
      => HasDirectAnswer ]_vars

C19_CompletenessOnlyByOwnAnswer ==
  [][ (/\ state.current_part # None
       /\ \/ EndStep
          \/ CellStep /\ HeadingKind(Last(cells')) \in {"problem", "part"}
       /\ pc' # "exited")
      => HasDirectAnswer ]_vars

C19_UnambiguousLabels ==
  /\ [] C19_DifferentPositionsDifferentLabels
  /\ C19_DuplicateOnlyAtSamePosition
  /\ C19_CompletenessOnlyByOwnAnswer

(***************************************************************************)
(* C20: from the initial scan state on, the labels of the answer list are  *)
(* the answered set at every point of the scan, and the answer list only   *)
(* grows at its end: a step leaves it as it is or appends one record, and  *)
(* no record is changed, moved or removed.                                 *)
(***************************************************************************)
C20_LabelsAreTheAnsweredSet == Labels(answers) = state.answer_numbers

C20_AppendOnly ==
  [][ \/ answers' = answers
      \/ /\ Len(answers') = Len(answers) + 1
         /\ Front(answers') = answers
         /\ CellStep
         /\ IsAnswerCell(Last(cells')) ]_vars

C20_AnswerListAndAnsweredSet == [] C20_LabelsAreTheAnsweredSet /\ C20_AppendOnly

\* two answers have been recorded, under different labels
C20_Witness ==
  /\ pc = "get_answers"
  /\ Len(answers) = 2
  /\ IsAnswerCell(Last(cells))
  /\ Cardinality(state.answer_numbers) = 2

====
